---- MODULE Spec2Model ----
(***************************************************************************)
(* A model of gen-ammo: the ammo processor stages of src/src/ammo_proc.rs  *)
(* (MethodS, ReserviorSampling, RoundRobin, WriteAmmo), the serializer of  *)
(* src/src/ammo.rs, the line sources of src/logut/src/read.rs, the log line *)
(* and URL parsers of src/logut/src/lib.rs and the glue of src/src/main.rs. *)
(* Each component has its own specification over its own group of          *)
(* variables; the other groups stay at their idle values.                  *)
(*                                                                         *)
(* Byte strings are sequences.  Option<T> is a sequence of length <= 1.    *)
(* rand's gen_range(low, high) draws from the half-open range low..high-1  *)
(* and panics when low >= high.                                            *)
(***************************************************************************)
EXTENDS Integers, Sequences, FiniteSets, TLC

\* ------------------------------------------------------------------ bounds
\* Largest total line count given to MethodS::new.
MaxTotal == 4
\* Largest target set size given to MethodS::new.
MaxTarget == 4
\* Largest number of bullets fed to a ReserviorSampling stage.
MaxInput == 4
\* Largest capacity (target_set_size) of a ReserviorSampling stage.
MaxCapacity == 3
\* Largest number of sinks of a RoundRobin stage.
MaxSinks == 3
\* Largest number of process calls made on a RoundRobin stage.
MaxCalls == 5
\* Largest number of bullets written through one WriteAmmo sink.
MaxBullets == 2
\* Largest number of lines the source under a FilteringReader produces.
MaxLines == 3
\* Largest number of sources of a Chained source.
MaxSources == 2
\* Largest number of lines of one source of a Chained source.
MaxSourceLines == 2
\* Largest --count value of a run.
MaxCount == 2
\* Largest number of output files of a run.
MaxFiles == 2
\* Largest number of input lines (that pass the line filter) of a run.
MaxRunLines == 4
\* Largest number of bytes of the text a raw stream carries.
MaxText == 3

VARIABLES
    \* --- MethodS stage (ammo_proc.rs:64-105) and its caller
    ms_pc,                  \* "new" | "ready" | "panicked" | "failed" | "finished"
    ms_arg_lines,           \* the input_lines_count argument of MethodS::new
    ms_arg_target,          \* the target_set_size argument of MethodS::new
    ms_input_lines_count,   \* MethodS.input_lines_count
    ms_target_set_size,     \* MethodS.target_set_size
    ms_already_processed,   \* MethodS.already_processed
    ms_already_selected,    \* MethodS.already_selected
    ms_calls,               \* number of process calls made by the caller so far
    ms_down,                \* bullets the subprocessor has received, in order
    ms_down_when,           \* for each of them, the process call that forwarded it
    ms_down_fail_at,        \* the subprocessor fails on this call of its process (0: never)
    ms_down_finished,       \* number of finish calls the subprocessor has received
    ms_last,                \* Option: need, not_seen, rnd of the last draw, and its outcome
    \* --- ReserviorSampling stage (ammo_proc.rs:19-62) and its caller
    rs_pc,                  \* "ready" | "panicked" | "finished"
    rs_selected,            \* ReserviorSampling.selected
    rs_target_set_size,     \* ReserviorSampling.target_set_size
    rs_index,               \* ReserviorSampling.index
    rs_result,              \* what finish returned: "none" | "Ok" | "Logic" | "Io"
    rs_down,                \* bullets the subprocessor has received, in order
    rs_down_fail_at,        \* the subprocessor fails on this call of its process (0: never)
    rs_down_finished,       \* number of finish calls the subprocessor has received
    \* --- RoundRobin stage (ammo_proc.rs:109-138) and its caller
    rr_pc,                  \* "ready" | "failed" | "panicked" | "finished"
    rr_current,             \* RoundRobin.current
    rr_sinks,               \* per subprocessor, the bullets it has received, in order
    rr_calls,               \* number of process calls made by the caller so far
    rr_fail_sink,           \* the subprocessor whose process fails (0: none) ...
    rr_fail_at,             \* ... on this call of its process
    rr_finish_fails,        \* the subprocessors whose finish fails
    rr_finished,            \* the subprocessors whose finish was called, in call order
    rr_result,              \* what finish returned: "none" | "Ok" | "Err"
    rr_error,               \* the subprocessor whose error finish returned (0: none)
    \* --- WriteAmmo sink (ammo_proc.rs:140-179, ammo.rs:43-69) and its caller
    wa_pc,                  \* "ready" | "failed" | "finished" | "dropped"
    wa_kind,                \* "stdout" | "file" | "gzip": how the sink was made
    wa_held,                \* bytes in the buffer of the BufWriter of a file sink
    wa_dest,                \* bytes the file, stdout or child stdin has accepted
    wa_buff,                \* WriteAmmo.buff: the Vec<u8> inside the cursor
    wa_position,            \* WriteAmmo.buff: the cursor position
    wa_bullets,             \* the bullets process was called with, in order
    wa_out,                 \* per process call, the bytes its writer accepted
    \* --- FilteringReader (main.rs:186-208) over its source
    fl_pc,                  \* "running" | "Ok" | "Err": what process_lines returned
    fl_raw,                 \* the lines the inner source has produced, in order
    fl_delivered,           \* the lines fed to the downstream callback, in order
    \* --- Chained (read.rs:40-57) over its sources
    ch_pc,                  \* "running" | "Ok" | "Err": what process_lines returned
    ch_sources,             \* per source: its number of lines and where it fails
    ch_i,                   \* the loop index i (0-based)
    ch_k,                   \* lines sources[i] has produced so far
    ch_delivered,           \* the lines fed to the callback, in order
    \* --- a run of main (main.rs:258-270)
    run_pc,                 \* "writer" | "processor" | "main" | "done" | "panicked"
    cli_method,             \* --method: <<>> | <<"stream">> | <<"inmem">>
    cli_count,              \* --count: <<>> | <<c>>
    cli_output,             \* "out" | "prefix" | "stdout": how outputs are named
    conf_algo,              \* RunConf.algo
    conf_out_files,         \* RunConf.out_files.len()
    conf_target_set_size,   \* RunConf.target_set_size: <<>> | <<n>>
    conf_in,                \* "files" | "stdin": RunConf.in_files non-empty or empty
    run_lines,              \* lines of the input that pass the line filter
    run_unread,             \* of these, the lines a reader made now still gets
    run_fed,                \* lines the main pass has fed to the processor
    \* --- process_lines (read.rs:12-37) over a raw stream
    pl_pc,                  \* "peek" | "lines" | "Ok" | "Err"
    pl_text,                \* the text the stream carries
    pl_gz,                  \* TRUE: the stream is a gzip encoding of the text
    pl_raw,                 \* the bytes of raw not read yet
    pl_prefetched,          \* prefetched: the bytes the first read returned
    pl_branch,              \* "none" | "plain" | "gzip": the arm of the match taken
    pl_reader,              \* the bytes reader has still to yield
    pl_delivered,           \* the lines fed to feed_to, in order
    \* --- process_log_line (main.rs:249-256) on one log line
    pr_pc,                  \* "line" | "record" | "bullet" | "value"
    pr_format,              \* "plain" | "tab" | "tskv": the format of the line
    pr_url,                 \* the url the line carries
    pr_tags,                \* the tags the line carries
    pr_line,                \* the line
    pr_rec,                 \* Option: the LogRecord parsed from the line
    pr_bullet,              \* Option: the BulletData made from the record
    pr_param,               \* the param argument of get_cgi_param_value_naive
    pr_value                \* what get_cgi_param_value_naive returned

msVars == <<ms_pc, ms_arg_lines, ms_arg_target, ms_input_lines_count,
            ms_target_set_size, ms_already_processed, ms_already_selected,
            ms_calls, ms_down, ms_down_when, ms_down_fail_at, ms_down_finished,
            ms_last>>

rsVars == <<rs_pc, rs_selected, rs_target_set_size, rs_index, rs_result,
            rs_down, rs_down_fail_at, rs_down_finished>>

rrVars == <<rr_pc, rr_current, rr_sinks, rr_calls, rr_fail_sink, rr_fail_at,
            rr_finish_fails, rr_finished, rr_result, rr_error>>

waVars == <<wa_pc, wa_kind, wa_held, wa_dest, wa_buff, wa_position, wa_bullets,
            wa_out>>

flVars == <<fl_pc, fl_raw, fl_delivered>>

chVars == <<ch_pc, ch_sources, ch_i, ch_k, ch_delivered>>

runVars == <<run_pc, cli_method, cli_count, cli_output, conf_algo,
             conf_out_files, conf_target_set_size, conf_in, run_lines,
             run_unread, run_fed>>

plVars == <<pl_pc, pl_text, pl_gz, pl_raw, pl_prefetched, pl_branch, pl_reader,
            pl_delivered>>

prVars == <<pr_pc, pr_format, pr_url, pr_tags, pr_line, pr_rec, pr_bullet,
            pr_param, pr_value>>

vars == <<msVars, rsVars, rrVars, waVars, flVars, chVars, runVars, plVars,
          prVars>>

\* ------------------------------------------------------------------ bullets
\* The i-th bullet of an input stream: a BulletData view whose resource
\* identifies the input position.
InputBullet(i) ==
    [resource |-> <<i>>, host |-> <<>>, place |-> <<>>, wizards |-> <<>>]

\* rand::Rng::gen_range(low, high): the values it can return.
GenRange(low, high) == low .. (high - 1)

\* ------------------------------------------------------------------ MethodS
\* The mutated constructor check: rejects equality too.
NewPanics_Strict(input_lines_count, target_set_size) ==
    input_lines_count <= target_set_size

\* MethodS::new panics exactly when this holds.
NewPanics(input_lines_count, target_set_size) ==
    input_lines_count < target_set_size

\* The mutated draw: the 1 is not added.
MethodSRnd_ZeroBased(g) == g

\* MethodS::process: rnd = 1 + self.rng.gen_range(0, not_seen)
MethodSRnd(g) == 1 + g

\* The mutated selection test: strict comparison.
Selects_Strict(need, rnd) == need > rnd

\* MethodS::process selects the bullet exactly when this holds.
Selects(need, rnd) == need >= rnd

MsIdle ==
    /\ ms_pc = "idle"
    /\ ms_arg_lines = 0
    /\ ms_arg_target = 0
    /\ ms_input_lines_count = 0
    /\ ms_target_set_size = 0
    /\ ms_already_processed = 0
    /\ ms_already_selected = 0
    /\ ms_calls = 0
    /\ ms_down = <<>>
    /\ ms_down_when = <<>>
    /\ ms_down_fail_at = 0
    /\ ms_down_finished = 0
    /\ ms_last = <<>>

MsInit ==
    /\ ms_pc = "new"
    /\ ms_arg_lines \in 0..MaxTotal
    /\ ms_arg_target \in 0..MaxTarget
    /\ ms_input_lines_count = 0
    /\ ms_target_set_size = 0
    /\ ms_already_processed = 0
    /\ ms_already_selected = 0
    /\ ms_calls = 0
    /\ ms_down = <<>>
    /\ ms_down_when = <<>>
    /\ ms_down_fail_at \in 0..MaxTarget
    /\ ms_down_finished = 0
    /\ ms_last = <<>>

\* MethodS::new(input_lines_count, target_set_size, subprocessor)
MethodS_new(input_lines_count, target_set_size) ==
    /\ ms_pc = "new"
    /\ IF NewPanics(input_lines_count, target_set_size)
       THEN /\ ms_pc' = "panicked"
            /\ UNCHANGED <<ms_input_lines_count, ms_target_set_size,
                           ms_already_processed, ms_already_selected>>
       ELSE /\ ms_pc' = "ready"
            /\ ms_input_lines_count' = input_lines_count
            /\ ms_target_set_size' = target_set_size
            /\ ms_already_processed' = 0
            /\ ms_already_selected' = 0
    /\ UNCHANGED <<ms_arg_lines, ms_arg_target, ms_calls, ms_down, ms_down_when,
                   ms_down_fail_at, ms_down_finished, ms_last>>

\* MethodS::process on the next bullet of the input, with the draw made by rng.
\* usize subtraction that would go below zero, and gen_range over an empty
\* range, panic.
MethodS_process(bullet) ==
    /\ ms_pc = "ready"
    /\ ms_calls' = ms_calls + 1
    /\ IF \/ ms_target_set_size < ms_already_selected
          \/ ms_input_lines_count < ms_already_processed
          \/ GenRange(0, ms_input_lines_count - ms_already_processed) = {}
       THEN /\ ms_pc' = "panicked"
            /\ UNCHANGED <<ms_already_processed, ms_already_selected, ms_down,
                           ms_down_when, ms_last>>
       ELSE LET need == ms_target_set_size - ms_already_selected
                not_seen == ms_input_lines_count - ms_already_processed
            IN \E g \in GenRange(0, not_seen) :
                 LET rnd == MethodSRnd(g) IN
                 /\ ms_last' = <<[need |-> need, not_seen |-> not_seen,
                                  rnd |-> rnd, selected |-> Selects(need, rnd)]>>
                 /\ IF Selects(need, rnd)
                    THEN /\ ms_already_selected' = ms_already_selected + 1
                         /\ IF ms_down_fail_at = Len(ms_down) + 1
                            THEN \* try! returns the subprocessor's error
                                 /\ ms_pc' = "failed"
                                 /\ UNCHANGED <<ms_down, ms_down_when,
                                                ms_already_processed>>
                            ELSE /\ ms_down' = Append(ms_down, bullet)
                                 /\ ms_down_when' = Append(ms_down_when, ms_calls + 1)
                                 /\ ms_already_processed' = ms_already_processed + 1
                                 /\ ms_pc' = "ready"
                    ELSE /\ ms_already_processed' = ms_already_processed + 1
                         /\ UNCHANGED <<ms_pc, ms_already_selected, ms_down,
                                        ms_down_when>>
    /\ UNCHANGED <<ms_arg_lines, ms_arg_target, ms_input_lines_count,
                   ms_target_set_size, ms_down_fail_at, ms_down_finished>>

\* MethodS::finish
MethodS_finish ==
    /\ ms_pc = "ready"
    /\ ms_pc' = "finished"
    /\ ms_down_finished' = ms_down_finished + 1
    /\ UNCHANGED <<ms_arg_lines, ms_arg_target, ms_input_lines_count,
                   ms_target_set_size, ms_already_processed, ms_already_selected,
                   ms_calls, ms_down, ms_down_when, ms_down_fail_at, ms_last>>

\* The caller of a MethodS stage: constructs it, feeds it the bullets of the
\* input in order, and finishes it.
MsConstruct == MethodS_new(ms_arg_lines, ms_arg_target)

MsFeed == MethodS_process(InputBullet(ms_calls + 1))

MsFinish == MethodS_finish

\* ------------------------------------------------------------------ ReserviorSampling
\* StoredBullet::from_data: an owned copy of the four fields.
StoredBullet_from_data(data) ==
    [resource |-> data.resource, host |-> data.host,
     place |-> data.place, wizards |-> data.wizards]

\* StoredBullet::get_data: a view of the four fields.
StoredBullet_get_data(stored) ==
    [resource |-> stored.resource, host |-> stored.host,
     place |-> stored.place, wizards |-> stored.wizards]

\* The values process draws r from when the buffer is full.
ReservoirDraws(index) == GenRange(0, index)

\* The buffer after process has handled a bullet at position index with draw r
\* (r is not drawn, and not read, while index < target_set_size).
ReservoirStore(selected, target_set_size, index, bullet, r) ==
    IF index < target_set_size
    THEN Append(selected, StoredBullet_from_data(bullet))
    ELSE IF r < target_set_size
         THEN [selected EXCEPT ![r + 1] = StoredBullet_from_data(bullet)]
         ELSE selected

\* The mutated finish check: off by one.
ReservoirNotEnough_OffByOne(have, target_set_size) == have + 1 < target_set_size

\* ReserviorSampling::finish fails with a Logic error exactly when this holds.
ReservoirNotEnough(have, target_set_size) == have < target_set_size

\* The bullets finish hands to the subprocessor, in order.
ReservoirForwarded(selected) ==
    [k \in 1..Len(selected) |-> StoredBullet_get_data(selected[k])]

RsIdle ==
    /\ rs_pc = "idle"
    /\ rs_selected = <<>>
    /\ rs_target_set_size = 0
    /\ rs_index = 0
    /\ rs_result = "none"
    /\ rs_down = <<>>
    /\ rs_down_fail_at = 0
    /\ rs_down_finished = 0

RsInit ==
    /\ rs_pc = "new"
    /\ rs_selected = <<>>
    /\ rs_target_set_size = 0
    /\ rs_index = 0
    /\ rs_result = "none"
    /\ rs_down = <<>>
    /\ rs_down_fail_at \in 0..MaxCapacity
    /\ rs_down_finished = 0

\* ReserviorSampling::new(set_size, subprocessor)
ReserviorSampling_new(set_size) ==
    /\ rs_pc = "new"
    /\ rs_pc' = "ready"
    /\ rs_selected' = <<>>
    /\ rs_target_set_size' = set_size
    /\ rs_index' = 0
    /\ UNCHANGED <<rs_result, rs_down, rs_down_fail_at, rs_down_finished>>

\* ReserviorSampling::process
ReserviorSampling_process(bullet) ==
    /\ rs_pc = "ready"
    /\ IF rs_index < rs_target_set_size
       THEN /\ rs_selected' = ReservoirStore(rs_selected, rs_target_set_size,
                                             rs_index, bullet, 0)
            /\ rs_index' = rs_index + 1
            /\ UNCHANGED rs_pc
       ELSE IF ReservoirDraws(rs_index) = {}
            THEN \* gen_range panics on an empty range
                 /\ rs_pc' = "panicked"
                 /\ UNCHANGED <<rs_selected, rs_index>>
            ELSE \E r \in ReservoirDraws(rs_index) :
                    /\ rs_selected' = ReservoirStore(rs_selected, rs_target_set_size,
                                                     rs_index, bullet, r)
                    /\ rs_index' = rs_index + 1
                    /\ UNCHANGED rs_pc
    /\ UNCHANGED <<rs_target_set_size, rs_result, rs_down, rs_down_fail_at,
                   rs_down_finished>>

\* ReserviorSampling::finish
ReserviorSampling_finish ==
    /\ rs_pc = "ready"
    /\ rs_pc' = "finished"
    /\ IF ReservoirNotEnough(Len(rs_selected), rs_target_set_size)
       THEN /\ rs_result' = "Logic"
            /\ UNCHANGED <<rs_down, rs_down_finished>>
       ELSE LET out == ReservoirForwarded(rs_selected) IN
            IF rs_down_fail_at \in 1..Len(out)
            THEN \* try! returns the subprocessor's error
                 /\ rs_down' = rs_down \o SubSeq(out, 1, rs_down_fail_at - 1)
                 /\ rs_result' = "Io"
                 /\ UNCHANGED rs_down_finished
            ELSE /\ rs_down' = rs_down \o out
                 /\ rs_down_finished' = rs_down_finished + 1
                 /\ rs_result' = "Ok"
    /\ UNCHANGED <<rs_selected, rs_target_set_size, rs_index, rs_down_fail_at>>

\* The caller of a ReserviorSampling stage feeds it the bullets of the input
\* in order, then finishes it.
RsConstruct == \E set_size \in 0..MaxCapacity : ReserviorSampling_new(set_size)

RsFeed ==
    /\ rs_index < MaxInput
    /\ ReserviorSampling_process(InputBullet(rs_index + 1))

RsFinish == ReserviorSampling_finish

\* ------------------------------------------------------------------ RoundRobin
\* The mutated index advance: wraps one step late.
RoundRobinAdvance_Late(current, len) ==
    IF current + 1 > len THEN 0 ELSE current + 1

\* RoundRobin.current after a successful forward: incremented, then reset to 0
\* when it has reached subprocessors.len().
RoundRobinAdvance(current, len) ==
    IF current + 1 >= len THEN 0 ELSE current + 1

\* The sink buffers after subprocessors[current] has received the bullet.
RoundRobinForward(sinks, current, bullet) ==
    [sinks EXCEPT ![current + 1] = Append(@, bullet)]

RrIdle ==
    /\ rr_pc = "idle"
    /\ rr_current = 0
    /\ rr_sinks = <<>>
    /\ rr_calls = 0
    /\ rr_fail_sink = 0
    /\ rr_fail_at = 0
    /\ rr_finish_fails = {}
    /\ rr_finished = <<>>
    /\ rr_result = "none"
    /\ rr_error = 0

RrInit ==
    /\ rr_pc = "new"
    /\ rr_current = 0
    /\ rr_sinks = <<>>
    /\ rr_calls = 0
    /\ rr_fail_sink \in 0..MaxSinks
    /\ rr_fail_at \in IF rr_fail_sink = 0 THEN {0} ELSE 1..2
    /\ rr_finish_fails \in SUBSET (1..MaxSinks)
    /\ rr_finished = <<>>
    /\ rr_result = "none"
    /\ rr_error = 0

\* RoundRobin::new(subprocessors), over len fresh sinks
RoundRobin_new(len) ==
    /\ rr_pc = "new"
    /\ rr_pc' = "ready"
    /\ rr_current' = 0
    /\ rr_sinks' = [i \in 1..len |-> <<>>]
    /\ UNCHANGED <<rr_calls, rr_fail_sink, rr_fail_at, rr_finish_fails,
                   rr_finished, rr_result, rr_error>>

\* RoundRobin::process
RoundRobin_process(bullet) ==
    /\ rr_pc = "ready"
    /\ rr_calls' = rr_calls + 1
    /\ IF rr_current >= Len(rr_sinks)
       THEN \* index out of bounds
            /\ rr_pc' = "panicked"
            /\ UNCHANGED <<rr_current, rr_sinks>>
       ELSE IF /\ rr_fail_sink = rr_current + 1
               /\ rr_fail_at = Len(rr_sinks[rr_current + 1]) + 1
            THEN \* try! returns the subprocessor's error
                 /\ rr_pc' = "failed"
                 /\ UNCHANGED <<rr_current, rr_sinks>>
            ELSE /\ rr_sinks' = RoundRobinForward(rr_sinks, rr_current, bullet)
                 /\ rr_current' = RoundRobinAdvance(rr_current, Len(rr_sinks))
                 /\ UNCHANGED rr_pc
    /\ UNCHANGED <<rr_fail_sink, rr_fail_at, rr_finish_fails, rr_finished,
                   rr_result, rr_error>>

\* The mutated loop: a failing finish does not end it.
RoundRobinFinishCalls_All(len, finish_fails) == [k \in 1..len |-> k]

\* The subprocessors RoundRobin::finish calls finish on, in order: all of
\* them, or those up to the first whose finish fails.
RoundRobinFinishCalls(len, finish_fails) ==
    IF finish_fails \cap (1..len) = {}
    THEN [k \in 1..len |-> k]
    ELSE [k \in 1..(CHOOSE f \in finish_fails \cap (1..len) :
                        \A g \in finish_fails \cap (1..len) : f <= g) |-> k]

\* RoundRobin::finish
RoundRobin_finish ==
    /\ rr_pc = "ready"
    /\ rr_pc' = "finished"
    /\ rr_finished' = rr_finished \o
                      RoundRobinFinishCalls(Len(rr_sinks), rr_finish_fails)
    /\ LET called == RoundRobinFinishCalls(Len(rr_sinks), rr_finish_fails) IN
       IF called # <<>> /\ called[Len(called)] \in rr_finish_fails
       THEN \* try! returns the error of the last finish called
            /\ rr_result' = "Err"
            /\ rr_error' = called[Len(called)]
       ELSE /\ rr_result' = "Ok"
            /\ rr_error' = 0
    /\ UNCHANGED <<rr_current, rr_sinks, rr_calls, rr_fail_sink, rr_fail_at,
                   rr_finish_fails>>

\* The caller of a RoundRobin stage feeds it the bullets of the input in order,
\* then finishes it.
\* make_writer always builds at least one sink.
RrConstruct == \E len \in 1..MaxSinks : RoundRobin_new(len)

RrFeed ==
    /\ rr_calls < MaxCalls
    /\ RoundRobin_process(InputBullet(rr_calls + 1))

RrFinish == RoundRobin_finish

\* ------------------------------------------------------------------ WriteAmmo
CR == "\r"
LF == "\n"

\* b"GET /"
GetPrefix == <<"G", "E", "T", " ", "/">>

\* b" HTTP/1.0\r\nUser-Agent: tank\r\nConnection: close\r\n\r\n"
RequestTail ==
    <<" ", "H", "T", "T", "P", "/", "1", ".", "0", CR, LF>> \o
    <<"U", "s", "e", "r", "-", "A", "g", "e", "n", "t", ":", " ",
      "t", "a", "n", "k", CR, LF>> \o
    <<"C", "o", "n", "n", "e", "c", "t", "i", "o", "n", ":", " ",
      "c", "l", "o", "s", "e", CR, LF>> \o
    <<CR, LF>>

Digits == <<"0", "1", "2", "3", "4", "5", "6", "7", "8", "9">>

\* The Display form of an unsigned integer ("{}").
RECURSIVE ToDecimal(_)
ToDecimal(n) ==
    IF n < 10
    THEN <<Digits[n + 1]>>
    ELSE ToDecimal(n \div 10) \o <<Digits[(n % 10) + 1]>>

\* slice::split: the pieces of s between the bytes of seps (one more piece
\* than there are separators; an empty s has one empty piece).
RECURSIVE Split(_, _)
Split(s, seps) ==
    IF \A i \in 1..Len(s) : s[i] \notin seps
    THEN <<s>>
    ELSE LET i == CHOOSE i \in 1..Len(s) :
                    /\ s[i] \in seps
                    /\ \A j \in 1..(i - 1) : s[j] \notin seps
         IN <<SubSeq(s, 1, i - 1)>> \o Split(SubSeq(s, i + 1, Len(s)), seps)

\* Write for Cursor<Vec<u8>>: data overwrites the vector from the position on
\* and extends it; the position moves past the data.
CursorWrite(cur, data) ==
    [vec |-> SubSeq(cur.vec, 1, cur.pos) \o data \o
             SubSeq(cur.vec, cur.pos + Len(data) + 1, Len(cur.vec)),
     pos |-> cur.pos + Len(data)]

\* Read for Cursor<Vec<u8>>, to the end: what io::copy takes from it.
CursorRest(cur) == SubSeq(cur.vec, cur.pos + 1, Len(cur.vec))

\* The mutated reset: the position is reset, the vector is not cleared.
WriteAmmoReset_NoClear(cur) == [vec |-> cur.vec, pos |-> 0]

\* WriteAmmo::process: set_position(0) and get_mut().clear().
WriteAmmoReset(cur) == [vec |-> <<>>, pos |-> 0]

\* write_bullet, first part: the request rendered into the scratch cursor.
RenderRequest(bullet, cur) ==
    CursorWrite(CursorWrite(CursorWrite(cur, GetPrefix), bullet.resource),
                RequestTail)

RECURSIVE TagWrites(_)
\* The writes of the loop over the entries of wizards: b"|", then the entry.
TagWrites(entries) ==
    IF entries = <<>>
    THEN <<>>
    ELSE (IF Len(Head(entries)) > 0 THEN <<(<<"|">>), Head(entries)>> ELSE <<>>)
         \o TagWrites(Tail(entries))

\* write_bullet, second part: the byte strings handed to the writer, one per
\* write call, in order, once the request is in the cursor.
WriterCalls(bullet, rendered) ==
    <<ToDecimal(rendered.pos), <<" ">>>> \o
    (IF Len(bullet.place) > 0 THEN <<bullet.place>> ELSE <<>>) \o
    TagWrites(Split(bullet.wizards, {","})) \o
    <<(<<CR, LF>>)>> \o
    <<CursorRest([vec |-> rendered.vec, pos |-> 0])>> \o
    <<(<<CR, LF>>)>>

RECURSIVE Concat(_)
Concat(chunks) ==
    IF chunks = <<>> THEN <<>> ELSE Head(chunks) \o Concat(Tail(chunks))

\* Bullets a WriteAmmo sink is given here.
LongResource == [i \in 1..45 |-> "x"]
WrittenBullets ==
    [resource : {<<>>, <<"s">>, LongResource},
     host : {<<"h">>},
     place : {<<>>, <<"m">>},
     wizards : {<<>>, <<"a", ",", "b">>, <<",", "a", ",", ",", "b", ",">>, <<",">>}]

\* BufWriter::new: the capacity of the buffer (the default of std::io).
BufWriterCapacity == 8192

\* BufWriter::write of chunk with held in the buffer: whether it writes to the
\* inner writer (to make room, or because chunk is as large as the buffer).
BufWriterPasses(held, chunk) ==
    \/ Len(held) + Len(chunk) > BufWriterCapacity
    \/ Len(chunk) >= BufWriterCapacity

\* BufWriter::write, when the inner writer takes what it is given: the buffer
\* is written out first if chunk does not fit, and chunk is kept in the buffer
\* unless it is as large as the buffer.
BufWriterWrite(sink, chunk) ==
    LET flushed == IF Len(sink.held) + Len(chunk) > BufWriterCapacity
                   THEN [held |-> <<>>, dest |-> sink.dest \o sink.held]
                   ELSE sink
    IN IF Len(chunk) >= BufWriterCapacity
       THEN [held |-> flushed.held, dest |-> flushed.dest \o chunk]
       ELSE [held |-> flushed.held \o chunk, dest |-> flushed.dest]

\* Write::write on self.writer: a file sink writes through its BufWriter,
\* StdoutWriter and ProcWriter hand the bytes to stdout and the child's stdin.
SinkWrite(kind, sink, chunk) ==
    IF kind = "file"
    THEN BufWriterWrite(sink, chunk)
    ELSE [held |-> sink.held, dest |-> sink.dest \o chunk]

RECURSIVE SinkWriteAll(_, _, _)
SinkWriteAll(kind, sink, chunks) ==
    IF chunks = <<>>
    THEN sink
    ELSE SinkWriteAll(kind, SinkWrite(kind, sink, Head(chunks)), Tail(chunks))

\* Whether the write of chunk can fail: only a write that reaches the file,
\* stdout or the pipe can.
SinkWriteCanFail(kind, sink, chunk) ==
    kind = "file" => BufWriterPasses(sink.held, chunk)

WaIdle ==
    /\ wa_pc = "idle"
    /\ wa_kind = "stdout"
    /\ wa_held = <<>>
    /\ wa_dest = <<>>
    /\ wa_buff = <<>>
    /\ wa_position = 0
    /\ wa_bullets = <<>>
    /\ wa_out = <<>>

\* WriteAmmo::to_stdout, to_file, to_gzip, to_stream: an empty cursor
WaInit ==
    /\ wa_pc = "ready"
    /\ wa_kind \in {"stdout", "file", "gzip"}
    /\ wa_held = <<>>
    /\ wa_dest = <<>>
    /\ wa_buff = <<>>
    /\ wa_position = 0
    /\ wa_bullets = <<>>
    /\ wa_out = <<>>

\* WriteAmmo::process; the writer fails on write call fail (0: on none), and
\* ? returns its error.
WriteAmmo_process(bullet, fail) ==
    /\ wa_pc = "ready"
    /\ LET rendered == RenderRequest(bullet,
                          WriteAmmoReset([vec |-> wa_buff, pos |-> wa_position]))
           calls == WriterCalls(bullet, rendered)
           taken == IF fail = 0 THEN calls ELSE SubSeq(calls, 1, fail - 1)
           sink == SinkWriteAll(wa_kind, [held |-> wa_held, dest |-> wa_dest],
                                taken)
       IN /\ fail \in 0..Len(calls)
          /\ fail > 0 => SinkWriteCanFail(wa_kind, sink, calls[fail])
          /\ wa_buff' = rendered.vec
          /\ wa_bullets' = Append(wa_bullets, bullet)
          /\ wa_out' = Append(wa_out, Concat(taken))
          /\ wa_held' = sink.held
          /\ wa_dest' = sink.dest
          /\ IF fail = 0
             THEN /\ wa_position' = Len(rendered.vec)
                  /\ UNCHANGED wa_pc
             ELSE /\ wa_position' = IF fail <= Len(calls) - 2
                                    THEN rendered.pos ELSE Len(rendered.vec)
                  /\ wa_pc' = "failed"
    /\ UNCHANGED wa_kind

\* AmmoProcessor::finish, which WriteAmmo does not override: Ok(()), and
\* nothing is written.
WriteAmmo_finish ==
    /\ wa_pc = "ready"
    /\ wa_pc' = "finished"
    /\ UNCHANGED <<wa_kind, wa_held, wa_dest, wa_buff, wa_position, wa_bullets,
                   wa_out>>

\* The sink is dropped when main returns. Dropping the BufWriter of a file
\* sink writes its buffer to the file and ignores an error of that write.
WriteAmmo_drop(fails) ==
    /\ wa_pc = "finished"
    /\ wa_pc' = "dropped"
    /\ wa_held' = <<>>
    /\ wa_dest' = IF fails THEN wa_dest ELSE wa_dest \o wa_held
    /\ UNCHANGED <<wa_kind, wa_buff, wa_position, wa_bullets, wa_out>>

\* The caller of a WriteAmmo sink.
WaWrite ==
    /\ Len(wa_bullets) < MaxBullets
    /\ \E bullet \in WrittenBullets : WriteAmmo_process(bullet, 0)

WaWriteFails ==
    /\ Len(wa_bullets) < MaxBullets
    /\ \E bullet \in WrittenBullets :
          \E fail \in 1..Len(WriterCalls(bullet, [vec |-> <<>>, pos |-> 0])) :
              WriteAmmo_process(bullet, fail)

WaFinish == WriteAmmo_finish

WaDrop == \E fails \in BOOLEAN : WriteAmmo_drop(fails)

\* ------------------------------------------------------------------ FilteringReader
\* b"rep-outgoing=1"
RepOutgoing == <<"r", "e", "p", "-", "o", "u", "t", "g", "o", "i", "n", "g", "=", "1">>

\* b"subrequest=1"
Subrequest == <<"s", "u", "b", "r", "e", "q", "u", "e", "s", "t", "=", "1">>

\* twoway::find_bytes(text, pattern): the 0-based offset of the first
\* occurrence (Some), or None.
FindBytes(text, pattern) ==
    LET hits == {i \in 0..(Len(text) - Len(pattern)) :
                    SubSeq(text, i + 1, i + Len(pattern)) = pattern}
    IN IF hits = {}
       THEN <<>>
       ELSE <<CHOOSE i \in hits : \A j \in hits : i <= j>>

\* The mutated check: || in place of &&.
FilterCheck_Or(line) ==
    \/ FindBytes(line, RepOutgoing) = <<>>
    \/ FindBytes(line, Subrequest) = <<>>

\* check_fn of make_reader
FilterCheck(line) ==
    /\ FindBytes(line, RepOutgoing) = <<>>
    /\ FindBytes(line, Subrequest) = <<>>

\* Lines the inner source produces here.
RawLines ==
    { <<"x">>,
      <<"u", "?", "r", "e", "p", "-", "o", "u", "t", "g", "o", "i", "n", "g", "=", "1">>,
      <<"s", "u", "b", "r", "e", "q", "u", "e", "s", "t", "=", "1", "&", "y">>,
      <<"s", "u", "b", "r", "e", "q", "u", "e", "s", "t", "=", "2">>,
      <<"r", "e", "p", "-", "o", "u", "t", "g", "o", "i", "n", "g", "=", "1", "s", "u", "b", "r", "e", "q", "u", "e", "s", "t", "=", "1">>,
      <<"r", "e", "p", "-", "o", "u", "t", "g", "o", "i", "n", "g", "=">> }

FlIdle ==
    /\ fl_pc = "idle"
    /\ fl_raw = <<>>
    /\ fl_delivered = <<>>

FlInit ==
    /\ fl_pc = "running"
    /\ fl_raw = <<>>
    /\ fl_delivered = <<>>

\* FilteringReader::process_lines, the closure process_line: the inner source
\* hands it a line.
FilteringReader_process_line(line) ==
    /\ fl_pc = "running"
    /\ fl_raw' = Append(fl_raw, line)
    /\ fl_delivered' = IF FilterCheck(line)
                       THEN Append(fl_delivered, line)
                       ELSE fl_delivered
    /\ UNCHANGED fl_pc

\* FilteringReader::process_lines returns what the inner source returns.
FilteringReader_return(result) ==
    /\ fl_pc = "running"
    /\ fl_pc' = result
    /\ UNCHANGED <<fl_raw, fl_delivered>>

FlLine ==
    /\ Len(fl_raw) < MaxLines
    /\ \E line \in RawLines : FilteringReader_process_line(line)

FlSourceOk == FilteringReader_return("Ok")

FlSourceErr == FilteringReader_return("Err")

\* ------------------------------------------------------------------ Chained
\* The k-th line (from 1) of the i-th source (from 1).
SourceLine(i, k) == <<"s", i, k>>

\* A source: its number of lines, and the number of lines after which its
\* process_lines fails (<<>>: it does not fail).
SourceShapes ==
    {sh \in [lines : 0..MaxSourceLines,
             fails : {<<>>} \cup {<<f>> : f \in 0..MaxSourceLines}] :
        sh.fails = <<>> \/ sh.fails[1] <= sh.lines}

ChIdle ==
    /\ ch_pc = "idle"
    /\ ch_sources = <<>>
    /\ ch_i = 0
    /\ ch_k = 0
    /\ ch_delivered = <<>>

ChInit ==
    /\ ch_pc = "running"
    /\ \E n \in 1..MaxSources : ch_sources \in [1..n -> SourceShapes]
    /\ ch_i = 0
    /\ ch_k = 0
    /\ ch_delivered = <<>>

\* sources[i] calls the closure with its next line; the closure calls feed_to.
Chained_line ==
    /\ ch_pc = "running"
    /\ ch_i < Len(ch_sources)
    /\ ch_k < ch_sources[ch_i + 1].lines
    /\ ch_sources[ch_i + 1].fails # <<ch_k>>
    /\ ch_delivered' = Append(ch_delivered, SourceLine(ch_i + 1, ch_k + 1))
    /\ ch_k' = ch_k + 1
    /\ UNCHANGED <<ch_pc, ch_sources, ch_i>>

\* sources[i].process_lines returns Ok: the loop goes on, and process_lines
\* returns Ok after the last source.
Chained_source_ok ==
    /\ ch_pc = "running"
    /\ ch_i < Len(ch_sources)
    /\ ch_k = ch_sources[ch_i + 1].lines
    /\ ch_sources[ch_i + 1].fails # <<ch_k>>
    /\ ch_i' = ch_i + 1
    /\ ch_k' = 0
    /\ ch_pc' = IF ch_i + 1 = Len(ch_sources) THEN "Ok" ELSE "running"
    /\ UNCHANGED <<ch_sources, ch_delivered>>

\* The mutated error branch: the error is dropped and the loop goes on.
Chained_source_err_Ignored ==
    /\ ch_pc = "running"
    /\ ch_i < Len(ch_sources)
    /\ ch_sources[ch_i + 1].fails = <<ch_k>>
    /\ ch_i' = ch_i + 1
    /\ ch_k' = 0
    /\ ch_pc' = IF ch_i + 1 = Len(ch_sources) THEN "Ok" ELSE "running"
    /\ UNCHANGED <<ch_sources, ch_delivered>>

\* sources[i].process_lines returns Err: ? returns it from process_lines.
Chained_source_err ==
    /\ ch_pc = "running"
    /\ ch_i < Len(ch_sources)
    /\ ch_sources[ch_i + 1].fails = <<ch_k>>
    /\ ch_pc' = "Err"
    /\ UNCHANGED <<ch_sources, ch_i, ch_k, ch_delivered>>

\* ------------------------------------------------------------------ main
\* get_conf_from_cli: target_set_size for --count count.
TargetSetSize(count, out_files_len) == count * out_files_len

\* get_conf_from_cli: the algorithm for --method.
AlgoOf(method) ==
    IF method = <<"stream">> THEN "MethodS"
    ELSE IF method = <<"inmem">> THEN "ReserviorSampling"
    ELSE "DoNotRandomize"

\* make_writer: the number of WriteAmmo sinks under the RoundRobin.
WriterCount(out_files_len) ==
    IF out_files_len <= 0 THEN 1 ELSE out_files_len

RunIdle ==
    /\ run_pc = "idle"
    /\ cli_method = <<>>
    /\ cli_count = <<>>
    /\ cli_output = "stdout"
    /\ conf_algo = "DoNotRandomize"
    /\ conf_out_files = 0
    /\ conf_target_set_size = <<>>
    /\ conf_in = "stdin"
    /\ run_lines = 0
    /\ run_unread = 0
    /\ run_fed = 0

\* The state after get_conf_from_cli: --method requires --count; --nfiles takes
\* a value greater than zero and --out at least one path; with neither there
\* is no output file.
RunInit ==
    /\ run_pc = "writer"
    /\ cli_method \in {<<>>, <<"stream">>, <<"inmem">>}
    /\ cli_count \in {<<>>} \cup {<<c>> : c \in 0..MaxCount}
    /\ cli_method # <<>> => cli_count # <<>>
    /\ cli_output \in {"out", "prefix", "stdout"}
    /\ conf_out_files \in IF cli_output = "stdout" THEN {0} ELSE 1..MaxFiles
    /\ conf_algo = AlgoOf(cli_method)
    /\ conf_target_set_size =
          IF cli_count = <<>>
          THEN <<>>
          ELSE <<TargetSetSize(cli_count[1], conf_out_files)>>
    /\ conf_in \in {"files", "stdin"}
    /\ run_lines \in 0..MaxRunLines
    /\ run_unread = run_lines
    /\ run_fed = 0
    /\ MsInit /\ ms_arg_lines = 0 /\ ms_arg_target = 0 /\ ms_down_fail_at = 0
    /\ RsInit /\ rs_down_fail_at = 0
    /\ RrInit /\ rr_fail_sink = 0 /\ rr_finish_fails = {}

\* The mutated input: no input can be read a second time.
UnreadAfterPass_Consumed(in, lines) == 0

\* What is left of the input once a reader has read it to the end: files can
\* be read again, standard input cannot.
UnreadAfterPass(in, lines) == IF in = "files" THEN lines ELSE 0

\* main: make_writer(&conf).unwrap()
Run_make_writer ==
    /\ run_pc = "writer"
    /\ RoundRobin_new(WriterCount(conf_out_files))
    /\ run_pc' = "processor"
    /\ UNCHANGED <<cli_method, cli_count, cli_output, conf_algo, conf_out_files,
                   conf_target_set_size, conf_in, run_lines, run_unread, run_fed>>
    /\ UNCHANGED <<msVars, rsVars>>

\* main: make_processor(&conf, writer).unwrap(); for MethodS it first counts
\* the lines with get_lines_count, a full pass over a reader of its own.
Run_make_processor ==
    /\ run_pc = "processor"
    /\ IF conf_algo = "MethodS"
       THEN /\ MethodS_new(run_unread, conf_target_set_size[1])
            /\ run_unread' = UnreadAfterPass(conf_in, run_lines)
            /\ run_pc' = IF ms_pc' = "panicked" THEN "panicked" ELSE "main"
            /\ UNCHANGED rsVars
       ELSE IF conf_algo = "ReserviorSampling"
            THEN /\ ReserviorSampling_new(conf_target_set_size[1])
                 /\ run_pc' = "main"
                 /\ UNCHANGED <<run_unread, msVars>>
            ELSE /\ run_pc' = "main"
                 /\ UNCHANGED <<run_unread, msVars, rsVars>>
    /\ UNCHANGED <<cli_method, cli_count, cli_output, conf_algo, conf_out_files,
                   conf_target_set_size, conf_in, run_lines, run_fed>>
    /\ UNCHANGED rrVars

\* main: reader.process_lines hands the next line to process_log_line, which
\* calls ammo_processor.process(&bullet_data).unwrap().
Run_line ==
    /\ run_pc = "main"
    /\ run_fed < run_unread
    /\ run_fed' = run_fed + 1
    /\ LET bullet == InputBullet(run_fed + 1) IN
       IF conf_algo = "MethodS"
       THEN /\ MethodS_process(bullet)
            /\ IF Len(ms_down') > Len(ms_down)
               THEN RoundRobin_process(bullet)
               ELSE UNCHANGED rrVars
            /\ run_pc' = IF ms_pc' = "ready" THEN "main" ELSE "panicked"
            /\ UNCHANGED rsVars
       ELSE IF conf_algo = "ReserviorSampling"
            THEN /\ ReserviorSampling_process(bullet)
                 /\ run_pc' = IF rs_pc' = "ready" THEN "main" ELSE "panicked"
                 /\ UNCHANGED <<msVars, rrVars>>
            ELSE /\ RoundRobin_process(bullet)
                 /\ run_pc' = IF rr_pc' = "ready" THEN "main" ELSE "panicked"
                 /\ UNCHANGED <<msVars, rsVars>>
    /\ UNCHANGED <<cli_method, cli_count, cli_output, conf_algo, conf_out_files,
                   conf_target_set_size, conf_in, run_lines, run_unread>>

\* A RoundRobin whose sinks all succeed, after process on each of the bullets.
RECURSIVE RoundRobinAfter(_, _, _)
RoundRobinAfter(sinks, current, bullets) ==
    IF bullets = <<>>
    THEN [sinks |-> sinks, current |-> current]
    ELSE RoundRobinAfter(RoundRobinForward(sinks, current, Head(bullets)),
                         RoundRobinAdvance(current, Len(sinks)),
                         Tail(bullets))

\* main: mixer.finish().unwrap(), once process_lines has returned.
Run_finish ==
    /\ run_pc = "main"
    /\ run_fed = run_unread
    /\ IF conf_algo = "MethodS"
       THEN /\ MethodS_finish
            /\ RoundRobin_finish
            /\ run_pc' = "done"
            /\ UNCHANGED rsVars
       ELSE IF conf_algo = "ReserviorSampling"
            THEN /\ ReserviorSampling_finish
                 /\ IF rs_result' = "Ok"
                    THEN LET fed == RoundRobinAfter(rr_sinks, rr_current,
                                       SubSeq(rs_down', Len(rs_down) + 1, Len(rs_down')))
                         IN /\ rr_sinks' = fed.sinks
                            /\ rr_current' = fed.current
                            /\ rr_calls' = rr_calls + Len(rs_down') - Len(rs_down)
                            /\ rr_finished' = rr_finished \o
                                  RoundRobinFinishCalls(Len(rr_sinks), rr_finish_fails)
                            /\ rr_result' = "Ok"
                            /\ rr_pc' = "finished"
                            /\ UNCHANGED <<rr_fail_sink, rr_fail_at, rr_finish_fails,
                                           rr_error>>
                            /\ run_pc' = "done"
                    ELSE /\ run_pc' = "panicked"
                         /\ UNCHANGED rrVars
                 /\ UNCHANGED msVars
            ELSE /\ RoundRobin_finish
                 /\ run_pc' = "done"
                 /\ UNCHANGED <<msVars, rsVars>>
    /\ UNCHANGED <<cli_method, cli_count, cli_output, conf_algo, conf_out_files,
                   conf_target_set_size, conf_in, run_lines, run_unread, run_fed>>

\* ------------------------------------------------------------------ process_lines
\* vec![0; 128]: the size of the buffer handed to the first read.
PeekSize == 128

\* The texts a stream carries here: bytes "a" and "\n".
Texts == UNION {[1..n -> {"a", LF}] : n \in 0..MaxText}

\* Bytes of small value, written as two hexadecimal digits, and their
\* one's complements.
HexBytes == <<"00", "01", "02", "03", "04", "05", "06", "07", "08", "09">>
ComplBytes == <<"ff", "fe", "fd", "fc", "fb", "fa", "f9", "f8", "f7", "f6">>

\* The fixed 10-byte gzip member header: ID1 ID2 CM FLG MTIME(4) XFL OS, with
\* no optional field (FLG = 0).
GzHeader == <<"1f", "8b", "08", "00", "00", "00", "00", "00", "00", "03">>

\* The number of bytes of s equal to b.
CountByte(s, b) == Cardinality({i \in 1..Len(s) : s[i] = b})

\* The 8-byte gzip trailer: a checksum of the text (standing for CRC-32: it
\* tells the texts used here apart up to the order of their bytes) and the
\* length of the text (ISIZE).
GzTrailer(text) ==
    <<HexBytes[CountByte(text, "a") + 1], HexBytes[CountByte(text, LF) + 1],
      "00", "00">> \o
    <<HexBytes[Len(text) + 1], "00", "00", "00">>

\* A valid gzip encoding of text: the header, one final stored deflate block
\* (BFINAL/BTYPE byte, LEN, NLEN, the bytes) and the trailer.
GzEncode(text) ==
    GzHeader \o
    <<"01", HexBytes[Len(text) + 1], "00", ComplBytes[Len(text) + 1], "ff">> \o
    text \o
    GzTrailer(text)

\* GzDecoder::new reads the member header from the start of its input: Ok with
\* the bytes behind the header, or Err when the input ends inside the header or
\* does not start with the gzip magic and method.
GzDecoder_new(bytes) ==
    IF /\ Len(bytes) >= Len(GzHeader)
       /\ SubSeq(bytes, 1, Len(GzHeader)) = GzHeader
    THEN <<SubSeq(bytes, Len(GzHeader) + 1, Len(bytes))>>
    ELSE <<>>

\* What a GzDecoder yields from the bytes behind the header: the text of the
\* stored block when block and trailer are well formed, otherwise an error.
GzInflate(body) ==
    IF /\ Len(body) >= 5
       /\ body[1] = "01"
       /\ \E n \in 0..9 : /\ body[2] = HexBytes[n + 1]
                          /\ body[3] = "00"
                          /\ body[4] = ComplBytes[n + 1]
                          /\ body[5] = "ff"
                          /\ Len(body) >= 5 + n + 8
                          /\ SubSeq(body, 5 + n + 1, 5 + n + 8) =
                                GzTrailer(SubSeq(body, 6, 5 + n))
    THEN LET n == CHOOSE n \in 0..9 : body[2] = HexBytes[n + 1]
         IN <<SubSeq(body, 6, 5 + n)>>
    ELSE <<>>

\* Read::read into a buffer of n bytes from a stream that still holds bytes:
\* the counts it may return (0 only at the end of the stream).
ReadCounts(bytes, n) ==
    IF bytes = <<>>
    THEN {0}
    ELSE {c \in 1..n : c <= Len(bytes)}

\* Read::chain: the bytes of first, then the bytes of second.
Chain(first, second) == first \o second

\* BufRead::read_until(delim): the number of bytes it takes, up to and
\* including the first delim, or all of them when there is none.
ReadUntil(bytes, delim) ==
    IF \E i \in 1..Len(bytes) : bytes[i] = delim
    THEN CHOOSE i \in 1..Len(bytes) :
            /\ bytes[i] = delim
            /\ \A j \in 1..(i - 1) : bytes[j] # delim
    ELSE Len(bytes)

\* while *line.last().unwrap_or(&b'\0') == b'\n' { line.pop(); }
RECURSIVE StripNewlines(_)
StripNewlines(line) ==
    IF line # <<>> /\ line[Len(line)] = LF
    THEN StripNewlines(SubSeq(line, 1, Len(line) - 1))
    ELSE line

PlIdle ==
    /\ pl_pc = "idle"
    /\ pl_text = <<>>
    /\ pl_gz = FALSE
    /\ pl_raw = <<>>
    /\ pl_prefetched = <<>>
    /\ pl_branch = "none"
    /\ pl_reader = <<>>
    /\ pl_delivered = <<>>

\* A raw stream that carries a text, as it is or gzip-encoded.
PlInit ==
    /\ pl_pc = "peek"
    /\ pl_text \in Texts
    /\ pl_gz \in BOOLEAN
    /\ pl_raw = IF pl_gz THEN GzEncode(pl_text) ELSE pl_text
    /\ pl_prefetched = <<>>
    /\ pl_branch = "none"
    /\ pl_reader = <<>>
    /\ pl_delivered = <<>>

\* process_lines, up to the loop: the first read returns count bytes, and the
\* reader is chosen by whether a gzip header can be read from these bytes.
process_lines_peek(count) ==
    /\ pl_pc = "peek"
    /\ count \in ReadCounts(pl_raw, PeekSize)
    /\ pl_prefetched' = SubSeq(pl_raw, 1, count)
    /\ pl_raw' = SubSeq(pl_raw, count + 1, Len(pl_raw))
    /\ IF GzDecoder_new(pl_prefetched') = <<>>
       THEN /\ pl_branch' = "plain"
            /\ pl_reader' = Chain(pl_prefetched', pl_raw')
            /\ pl_pc' = "lines"
       ELSE LET body == GzDecoder_new(Chain(pl_prefetched', pl_raw')) IN
            /\ pl_branch' = "gzip"
            /\ IF body = <<>> \/ GzInflate(body[1]) = <<>>
               THEN \* the decoder reports the damaged stream
                    /\ pl_reader' = <<>>
                    /\ pl_pc' = "Err"
               ELSE /\ pl_reader' = GzInflate(body[1])[1]
                    /\ pl_pc' = "lines"
    /\ UNCHANGED <<pl_text, pl_gz, pl_delivered>>

\* process_lines, one turn of the loop: read_until returned more than 0 bytes.
process_lines_line ==
    /\ pl_pc = "lines"
    /\ pl_reader # <<>>
    /\ LET n == ReadUntil(pl_reader, LF) IN
       /\ pl_delivered' = Append(pl_delivered,
                                 StripNewlines(SubSeq(pl_reader, 1, n)))
       /\ pl_reader' = SubSeq(pl_reader, n + 1, Len(pl_reader))
    /\ UNCHANGED <<pl_pc, pl_text, pl_gz, pl_raw, pl_prefetched, pl_branch>>

\* process_lines: read_until returned 0, the function returns Ok(()).
process_lines_return ==
    /\ pl_pc = "lines"
    /\ pl_reader = <<>>
    /\ pl_pc' = "Ok"
    /\ UNCHANGED <<pl_text, pl_gz, pl_raw, pl_prefetched, pl_branch, pl_reader,
                   pl_delivered>>

\* process_lines: the first read or a read_until fails and ? returns the error.
process_lines_err ==
    /\ pl_pc \in {"peek", "lines"}
    /\ pl_pc' = "Err"
    /\ UNCHANGED <<pl_text, pl_gz, pl_raw, pl_prefetched, pl_branch, pl_reader,
                   pl_delivered>>

PlPeek == \E count \in 0..PeekSize : process_lines_peek(count)

\* ------------------------------------------------------------------ log lines and URLs
TAB == "\t"

\* slice::starts_with
StartsWith(s, prefix) ==
    /\ Len(s) >= Len(prefix)
    /\ SubSeq(s, 1, Len(prefix)) = prefix

\* b"tskv", b"url", b"wizards", b"place", b"http://"
Tskv == <<"t", "s", "k", "v">>
UrlKey == <<"u", "r", "l">>
WizardsKey == <<"w", "i", "z", "a", "r", "d", "s">>
PlaceParam == <<"p", "l", "a", "c", "e">>
HttpPrefix == <<"h", "t", "t", "p", ":", "/", "/">>

\* make_record_from_plain_line
make_record_from_plain_line(line) == [url |-> line, wizards |-> <<>>]

\* parse_tab_separated_log_line: of the tab-separated values, the one with
\* index 1 is the url and the one with index 12 the wizards (indices from 0).
parse_tab_separated_log_line(line) ==
    LET values == Split(line, {TAB})
    IN [url |-> IF Len(values) > 1 THEN values[1 + 1] ELSE <<>>,
        wizards |-> IF Len(values) > 12 THEN values[12 + 1] ELSE <<>>]

\* item.splitn(2, '='): the key before the first '=' and the value behind it
\* (empty when the item has no '=').
TskvKey(item) == Split(item, {"="})[1]

TskvValue(item) == SubSeq(item, Len(TskvKey(item)) + 2, Len(item))

\* parse_tskv_log_line: the value of the last item with the key, or b"".
TskvField(items, key) ==
    LET found == {i \in 1..Len(items) : TskvKey(items[i]) = key}
    IN IF found = {}
       THEN <<>>
       ELSE TskvValue(items[CHOOSE i \in found : \A j \in found : i >= j])

\* parse_tskv_log_line
parse_tskv_log_line(line) ==
    LET items == Split(line, {TAB})
    IN [url |-> TskvField(items, UrlKey),
        wizards |-> TskvField(items, WizardsKey)]

\* The mutated dispatch test: only the tskv prefix marks a structured line.
IsStructured_TskvOnly(line) == StartsWith(line, Tskv)

\* parse_log_line: a line is plain unless it starts with b"tskv" or b"[".
IsStructured(line) == StartsWith(line, Tskv) \/ StartsWith(line, <<"[">>)

\* parse_log_line
parse_log_line(line) ==
    IF ~IsStructured(line)
    THEN make_record_from_plain_line(line)
    ELSE IF Split(line, {TAB})[1] = Tskv
         THEN parse_tskv_log_line(line)
         ELSE parse_tab_separated_log_line(line)

\* The mutated test of a part: the key only has to end with param.
CgiPartMatches_Suffix(part, param) ==
    \E k \in 0..Len(part) :
        /\ StartsWith(SubSeq(part, k + 1, Len(part)), param)
        /\ Len(part) > k + Len(param)
        /\ part[k + Len(param) + 1] = "="

\* get_cgi_param_value_naive: part.starts_with(param) &&
\* part.get(param.len()) == Some(&b'=')
CgiPartMatches(part, param) ==
    /\ StartsWith(part, param)
    /\ Len(part) > Len(param)
    /\ part[Len(param) + 1] = "="

\* get_cgi_param_value_naive: Some(the bytes behind "param=") of the first part
\* that matches, or None.
get_cgi_param_value_naive(url, param) ==
    LET parts == Split(url, {"?", "&"})
        found == {i \in 1..Len(parts) : CgiPartMatches(parts[i], param)}
    IN IF found = {}
       THEN <<>>
       ELSE LET part == parts[CHOOSE i \in found : \A j \in found : i <= j]
            IN <<SubSeq(part, Len(param) + 2, Len(part))>>

\* get_host_port_resource_from_url
get_host_port_resource_from_url(url) ==
    LET rest == IF StartsWith(url, HttpPrefix)
                THEN SubSeq(url, Len(HttpPrefix) + 1, Len(url))
                ELSE url
        slash == FindBytes(rest, <<"/">>)
        host_port == IF slash = <<>> THEN rest ELSE SubSeq(rest, 1, slash[1])
        resource == IF slash = <<>>
                    THEN <<>>
                    ELSE SubSeq(rest, slash[1] + 2, Len(rest))
        colon == FindBytes(host_port, <<":">>)
    IN [host |-> IF colon = <<>>
                 THEN host_port
                 ELSE SubSeq(host_port, 1, colon[1]),
        port |-> IF colon = <<>>
                 THEN <<>>
                 ELSE SubSeq(host_port, colon[1] + 2, Len(host_port)),
        resource |-> resource]

\* make_bullet_data_from_log_record
make_bullet_data_from_log_record(rec) ==
    LET parts == get_host_port_resource_from_url(rec.url)
        place == get_cgi_param_value_naive(parts.resource, PlaceParam)
    IN [resource |-> parts.resource,
        host |-> parts.host,
        place |-> IF place = <<>> THEN <<>> ELSE place[1],
        wizards |-> rec.wizards]

\* URLs that log lines carry here.
Urls ==
    {<<>>,
     <<"h", "t", "t", "p", ":", "/", "/", "h", ":", "8", "/", "s", "?", "a", "=", "1", "&", "p", "l", "a", "c", "e", "=", "m", "&", "b", "=">>,
     <<"h", "/", "s", "?", "x", "x", "x", "p", "l", "a", "c", "e", "=", "m">>,
     <<"h", "/", "s", "?", "p", "l", "a", "c", "e", "x", "=", "m", "&", "p", "l", "a", "c", "e", "=">>,
     <<"h", "/", "s", "?", "p", "l", "a", "c", "e">>,
     <<"h", "t", "t", "p", ":", "/", "/", "h", "?", "p", "l", "a", "c", "e", "=", "m">>,
     <<"h", "/", "p", "l", "a", "c", "e", "=", "m">>,
     <<"h", "/", "s", "?", "p", "l", "a", "c", "e", "=", "m", "&", "p", "l", "a", "c", "e", "=", "n">>,
     <<"[", "h", "]", "/", "s">>,
     <<"t", "s", "k", "v", "/", "s", "?", "=", "v">>,
     <<"t", "s", "k", "v">>,
     <<"h", "/", "s", "?", "p", "=", "1", "&", "=", "v">>}

\* Tag strings that log lines carry here.
TagStrings == {<<>>, <<"a", ",", "b">>}

\* Parameter names looked up here.
ParamNames == {PlaceParam, <<"p">>, <<>>}

\* A log line of each format that carries url u and tags t: the url alone; the
\* tab-separated line with b"[d]" in field 0, u in field 1 and t in field 12;
\* the tskv line with url=u and wizards=t.
LineOf(format, u, t) ==
    IF format = "plain" THEN u
    ELSE IF format = "tab"
         THEN <<"[", "d", "]", TAB>> \o u \o [i \in 1..11 |-> TAB] \o t \o
              <<TAB, TAB>>
         ELSE Tskv \o <<TAB>> \o UrlKey \o <<"=">> \o u \o
              <<TAB>> \o WizardsKey \o <<"=">> \o t

PrIdle ==
    /\ pr_pc = "idle"
    /\ pr_format = "plain"
    /\ pr_url = <<>>
    /\ pr_tags = <<>>
    /\ pr_line = <<>>
    /\ pr_rec = <<>>
    /\ pr_bullet = <<>>
    /\ pr_param = <<>>
    /\ pr_value = <<>>

\* A log line about to be handed to process_log_line.
PrInit ==
    /\ pr_pc = "line"
    /\ pr_format \in {"plain", "tab", "tskv"}
    /\ pr_url \in Urls
    /\ pr_tags \in TagStrings
    /\ pr_line = LineOf(pr_format, pr_url, pr_tags)
    /\ pr_rec = <<>>
    /\ pr_bullet = <<>>
    /\ pr_param = <<>>
    /\ pr_value = <<>>

\* process_log_line: let rec = logut::parse_log_line(line)
Pr_parse_log_line ==
    /\ pr_pc = "line"
    /\ pr_rec' = <<parse_log_line(pr_line)>>
    /\ pr_pc' = "record"
    /\ UNCHANGED <<pr_format, pr_url, pr_tags, pr_line, pr_bullet, pr_param,
                   pr_value>>

\* process_log_line: let bullet_data = make_bullet_data_from_log_record(&rec)
Pr_make_bullet ==
    /\ pr_pc = "record"
    /\ pr_bullet' = <<make_bullet_data_from_log_record(pr_rec[1])>>
    /\ pr_pc' = "bullet"
    /\ UNCHANGED <<pr_format, pr_url, pr_tags, pr_line, pr_rec, pr_param,
                   pr_value>>

\* A caller of get_cgi_param_value_naive on the url of the record.
Pr_get_cgi_param(param) ==
    /\ pr_pc = "record"
    /\ pr_param' = param
    /\ pr_value' = get_cgi_param_value_naive(pr_rec[1].url, param)
    /\ pr_pc' = "value"
    /\ UNCHANGED <<pr_format, pr_url, pr_tags, pr_line, pr_rec, pr_bullet>>

PrGetParam == \E param \in ParamNames : Pr_get_cgi_param(param)

\* ------------------------------------------------------------------ specifications
MsOthers == <<rsVars, rrVars, waVars, flVars, chVars, runVars, plVars, prVars>>

MsNext ==
    \/ MsConstruct /\ UNCHANGED MsOthers
    \/ MsFeed /\ UNCHANGED MsOthers
    \/ MsFinish /\ UNCHANGED MsOthers

MsStart ==
    /\ MsInit
    /\ RsIdle
    /\ RrIdle
    /\ WaIdle
    /\ FlIdle
    /\ ChIdle
    /\ RunIdle
    /\ PlIdle
    /\ PrIdle

SpecMethodS == MsStart /\ [][MsNext]_vars

RsOthers == <<msVars, rrVars, waVars, flVars, chVars, runVars, plVars, prVars>>

RsNext ==
    \/ RsConstruct /\ UNCHANGED RsOthers
    \/ RsFeed /\ UNCHANGED RsOthers
    \/ RsFinish /\ UNCHANGED RsOthers

RsStart ==
    /\ RsInit
    /\ MsIdle
    /\ RrIdle
    /\ WaIdle
    /\ FlIdle
    /\ ChIdle
    /\ RunIdle
    /\ PlIdle
    /\ PrIdle

SpecReservoir == RsStart /\ [][RsNext]_vars

RrOthers == <<msVars, rsVars, waVars, flVars, chVars, runVars, plVars, prVars>>

RrNext ==
    \/ RrConstruct /\ UNCHANGED RrOthers
    \/ RrFeed /\ UNCHANGED RrOthers
    \/ RrFinish /\ UNCHANGED RrOthers

RrStart ==
    /\ RrInit
    /\ MsIdle
    /\ RsIdle
    /\ WaIdle
    /\ FlIdle
    /\ ChIdle
    /\ RunIdle
    /\ PlIdle
    /\ PrIdle

SpecRoundRobin == RrStart /\ [][RrNext]_vars

WaOthers == <<msVars, rsVars, rrVars, flVars, chVars, runVars, plVars, prVars>>

WaNext ==
    \/ WaWrite /\ UNCHANGED WaOthers
    \/ WaWriteFails /\ UNCHANGED WaOthers
    \/ WaFinish /\ UNCHANGED WaOthers
    \/ WaDrop /\ UNCHANGED WaOthers

WaStart ==
    /\ WaInit
    /\ MsIdle
    /\ RsIdle
    /\ RrIdle
    /\ FlIdle
    /\ ChIdle
    /\ RunIdle
    /\ PlIdle
    /\ PrIdle

SpecWrite == WaStart /\ [][WaNext]_vars

FlOthers == <<msVars, rsVars, rrVars, waVars, chVars, runVars, plVars, prVars>>

FlNext ==
    \/ FlLine /\ UNCHANGED FlOthers
    \/ FlSourceOk /\ UNCHANGED FlOthers
    \/ FlSourceErr /\ UNCHANGED FlOthers

FlStart ==
    /\ FlInit
    /\ MsIdle
    /\ RsIdle
    /\ RrIdle
    /\ WaIdle
    /\ ChIdle
    /\ RunIdle
    /\ PlIdle
    /\ PrIdle

SpecFilter == FlStart /\ [][FlNext]_vars

ChOthers == <<msVars, rsVars, rrVars, waVars, flVars, runVars, plVars, prVars>>

ChNext ==
    \/ Chained_line /\ UNCHANGED ChOthers
    \/ Chained_source_ok /\ UNCHANGED ChOthers
    \/ Chained_source_err /\ UNCHANGED ChOthers

ChStart ==
    /\ ChInit
    /\ MsIdle
    /\ RsIdle
    /\ RrIdle
    /\ WaIdle
    /\ FlIdle
    /\ RunIdle
    /\ PlIdle
    /\ PrIdle

SpecChained == ChStart /\ [][ChNext]_vars

RunOthers == <<waVars, flVars, chVars, plVars, prVars>>

RunNext ==
    \/ Run_make_writer /\ UNCHANGED RunOthers
    \/ Run_make_processor /\ UNCHANGED RunOthers
    \/ Run_line /\ UNCHANGED RunOthers
    \/ Run_finish /\ UNCHANGED RunOthers

RunStart ==
    /\ RunInit
    /\ WaIdle
    /\ FlIdle
    /\ ChIdle
    /\ PlIdle
    /\ PrIdle

SpecRun == RunStart /\ [][RunNext]_vars

PlOthers == <<msVars, rsVars, rrVars, waVars, flVars, chVars, runVars, prVars>>

PlNext ==
    \/ PlPeek /\ UNCHANGED PlOthers
    \/ process_lines_line /\ UNCHANGED PlOthers
    \/ process_lines_return /\ UNCHANGED PlOthers
    \/ process_lines_err /\ UNCHANGED PlOthers

PlStart ==
    /\ PlInit
    /\ MsIdle
    /\ RsIdle
    /\ RrIdle
    /\ WaIdle
    /\ FlIdle
    /\ ChIdle
    /\ RunIdle
    /\ PrIdle

SpecLines == PlStart /\ [][PlNext]_vars

PrOthers == <<msVars, rsVars, rrVars, waVars, flVars, chVars, runVars, plVars>>

PrNext ==
    \/ Pr_parse_log_line /\ UNCHANGED PrOthers
    \/ Pr_make_bullet /\ UNCHANGED PrOthers
    \/ PrGetParam /\ UNCHANGED PrOthers

PrStart ==
    /\ PrInit
    /\ MsIdle
    /\ RsIdle
    /\ RrIdle
    /\ WaIdle
    /\ FlIdle
    /\ ChIdle
    /\ RunIdle
    /\ PlIdle

SpecParse == PrStart /\ [][PrNext]_vars

\* ------------------------------------------------------------------ claims

\* C1: a MethodS stage built with total count T and target size S <= T whose
\* subprocessor has not failed has, after exactly T process calls and whatever
\* the draws were, forwarded exactly S bullets, each during the call that
\* processed it (so in input order), and already_processed = T.
C1_ExactSample ==
    (ms_pc \in {"ready", "finished"} /\ ms_calls = ms_input_lines_count) =>
        /\ Len(ms_down) = ms_target_set_size
        /\ ms_already_processed = ms_input_lines_count
        /\ \A k \in 1..Len(ms_down) : ms_down[k] = InputBullet(ms_down_when[k])
        /\ \A k \in 1..(Len(ms_down) - 1) : ms_down_when[k] < ms_down_when[k + 1]

\* C1 witness: 2 of 4 bullets sampled, the first and the last.
C1_Witness ==
    /\ ms_pc = "finished"
    /\ ms_input_lines_count = 4
    /\ ms_calls = 4
    /\ ms_down = <<InputBullet(1), InputBullet(4)>>

\* C7: MethodS::new with total_count < target_size panics before any bullet is
\* processed or forwarded; otherwise (equality and target_size = 0 included)
\* it yields a stage with already_processed = 0 and already_selected = 0.
C7_ConstructionCheck ==
    /\ (ms_pc \notin {"new", "idle"} /\ ms_arg_lines < ms_arg_target) =>
            /\ ms_pc = "panicked"
            /\ ms_calls = 0
            /\ ms_down = <<>>
    /\ (ms_pc \notin {"new", "idle"} /\ ms_arg_lines >= ms_arg_target) =>
            /\ ms_input_lines_count = ms_arg_lines
            /\ ms_target_set_size = ms_arg_target
            /\ ms_calls = 0 =>
                    /\ ms_pc \in {"ready", "finished"}
                    /\ ms_already_processed = 0
                    /\ ms_already_selected = 0

\* C7 witness: construction with 2 lines for a target of 3 has panicked.
C7_Witness ==
    /\ ms_pc = "panicked"
    /\ ms_arg_lines = 2
    /\ ms_arg_target = 3
    /\ ms_calls = 0

\* The buffer of a stage of capacity K after the first n bullets of the input,
\* when the draw at position i (0-indexed, K <= i < n) is d[i].
RECURSIVE C3_After(_, _, _)
C3_After(K, n, d) ==
    IF n = 0
    THEN <<>>
    ELSE ReservoirStore(C3_After(K, n - 1, d), K, n - 1, InputBullet(n),
                        IF n - 1 < K THEN 0 ELSE d[n - 1])

\* Every sequence of draws process can make over N bullets.  The draw at
\* position i is uniform over ReservoirDraws(i), whatever the earlier draws
\* were, so all these sequences have the same probability.
C3_DrawSeqs(K, N) ==
    {d \in [K..(N - 1) -> 0..N] : \A i \in K..(N - 1) : d[i] \in ReservoirDraws(i)}

\* The draw sequences that leave the bullet of input position p in the buffer.
C3_Keeps(K, N, p) ==
    {d \in C3_DrawSeqs(K, N) :
        \E k \in 1..Len(C3_After(K, N, d)) :
            C3_After(K, N, d)[k] = StoredBullet_from_data(InputBullet(p))}

\* C2: a ReserviorSampling stage of capacity K processes any N >= K bullets
\* (K = 0 included) without aborting, holds exactly K bullets when finish is
\* called, and finish forwards exactly those K bullets in buffer-slot order
\* and then calls the subprocessor's finish exactly once.
C2_BufferForwarded ==
    /\ rs_pc # "panicked"
    /\ (rs_pc = "finished" /\ rs_index >= rs_target_set_size
            /\ rs_down_fail_at \notin 1..rs_target_set_size) =>
        /\ Len(rs_selected) = rs_target_set_size
        /\ rs_down = [k \in 1..Len(rs_selected) |->
                          StoredBullet_get_data(rs_selected[k])]
        /\ rs_down_finished = 1

\* C3: with uniform draws, each of the N >= K bullets fed to a stage of
\* capacity K is in the buffer at finish with the same probability K/N.
C3_UniformInclusion ==
    (rs_pc = "finished" /\ rs_index >= rs_target_set_size) =>
        \A p \in 1..rs_index :
            rs_index * Cardinality(C3_Keeps(rs_target_set_size, rs_index, p))
                = rs_target_set_size
                    * Cardinality(C3_DrawSeqs(rs_target_set_size, rs_index))

\* C6: finish on a stage that has processed fewer than K bullets returns a
\* Logic error (not an Io error) and forwards nothing to the subprocessor.
C6_NotEnoughInput ==
    (rs_pc = "finished" /\ rs_index < rs_target_set_size) =>
        /\ rs_result = "Logic"
        /\ rs_down = <<>>
        /\ rs_down_finished = 0

\* C6 witness: finish after 2 bullets on a stage of capacity 3.
C6_Witness ==
    /\ rs_pc = "finished"
    /\ rs_target_set_size = 3
    /\ rs_index = 2
    /\ rs_result = "Logic"

\* The bullets at 0-indexed input positions i, i+N, i+2N, ... below M, in
\* order (i counted from 1 here, as the sinks are).
C4_EveryNth(i, N, M) ==
    [k \in 1..Cardinality({p \in 1..M : (p - 1) % N = i - 1}) |->
        InputBullet(i + (k - 1) * N)]

\* C4: while all sinks succeed, after M process calls on a RoundRobin stage
\* over N >= 1 sinks, sink i has received exactly the bullets at 0-indexed
\* input positions i, i+N, i+2N, ... below M, in that order.
C4_RoundRobinShare ==
    (rr_pc \in {"ready", "finished", "panicked"}) =>
        /\ rr_pc # "panicked"
        /\ \A i \in 1..Len(rr_sinks) :
              rr_sinks[i] = C4_EveryNth(i, Len(rr_sinks), rr_calls)

\* C4 witness: 5 bullets over 3 sinks, the second sink holds bullets 1 and 4
\* (0-indexed).
C4_Witness ==
    /\ rr_pc = "ready"
    /\ Len(rr_sinks) = 3
    /\ rr_calls = 5
    /\ rr_sinks[2] = <<InputBullet(2), InputBullet(5)>>

\* The request of a bullet.
C8_Request(bullet) == GetPrefix \o bullet.resource \o RequestTail

\* The annotation of a tag string: "|" and the entry for every non-empty
\* comma-separated entry, in order (fresh: the next byte starts an entry).
RECURSIVE C8_Tags(_, _)
C8_Tags(tags, fresh) ==
    IF tags = <<>>
    THEN <<>>
    ELSE IF Head(tags) = ","
         THEN C8_Tags(Tail(tags), TRUE)
         ELSE (IF fresh THEN <<"|">> ELSE <<>>) \o <<Head(tags)>>
              \o C8_Tags(Tail(tags), FALSE)

\* The number a string of decimal digits denotes.
RECURSIVE C8_Value(_)
C8_Value(digits) ==
    IF digits = <<>>
    THEN 0
    ELSE 10 * C8_Value(SubSeq(digits, 1, Len(digits) - 1))
         + (CHOOSE d \in 0..9 : Digits[d + 1] = digits[Len(digits)])

\* out is the ammo record of the bullet.
C8_IsRecordOf(out, bullet) ==
    /\ \E i \in 1..Len(out) : out[i] = " "
    /\ LET sp == CHOOSE i \in 1..Len(out) :
                    out[i] = " " /\ \A j \in 1..(i - 1) : out[j] # " "
           number == SubSeq(out, 1, sp - 1)
       IN /\ Len(number) >= 1
          /\ \A j \in 1..Len(number) : \E d \in 0..9 : Digits[d + 1] = number[j]
          /\ (Len(number) > 1 => number[1] # "0")
          /\ C8_Value(number) = Len(C8_Request(bullet))
          /\ SubSeq(out, sp + 1, Len(out)) =
                bullet.place \o C8_Tags(bullet.wizards, TRUE) \o <<CR, LF>>
                \o C8_Request(bullet) \o <<CR, LF>>

\* C8: every bullet written successfully through one WriteAmmo sink comes out
\* as the decimal length L of its own request, a space, the annotation (place,
\* then |entry per non-empty entry of tags), CR LF, the L request bytes
\* GET /<resource> HTTP/1.0 CR LF User-Agent: tank CR LF Connection: close
\* CR LF CR LF, and CR LF, whatever was written through the sink before.
C8_RecordFormat ==
    \A k \in 1..Len(wa_out) :
        (k < Len(wa_out) \/ wa_pc = "ready") => C8_IsRecordOf(wa_out[k], wa_bullets[k])

\* C8 witness: a short bullet written after a longer one.
C8_Witness ==
    /\ wa_pc = "ready"
    /\ Len(wa_out) = 2
    /\ wa_bullets[1].resource = LongResource
    /\ wa_bullets[2] = [resource |-> <<"s">>, host |-> <<"h">>, place |-> <<"m">>,
                         wizards |-> <<",", "a", ",", ",", "b", ",">>]
    /\ SubSeq(wa_out[2], 1, 16) =
          <<"5", "6", " ", "m", "|", "a", "|", "b", CR, LF,
            "G", "E", "T", " ", "/", "s">>
    /\ Len(wa_out[2]) = 68

\* pattern occurs in line as a substring.
C9_Contains(line, pattern) ==
    \E i \in 1..(Len(line) - Len(pattern) + 1) :
        \A j \in 1..Len(pattern) : line[i + j - 1] = pattern[j]

\* line carries neither exclusion marker.
C9_Passes(line) ==
    /\ ~C9_Contains(line, RepOutgoing)
    /\ ~C9_Contains(line, Subrequest)

\* C9: the filtering source delivers a line iff the raw line contains neither
\* rep-outgoing=1 nor subrequest=1; the delivered lines are the passing raw
\* lines, unchanged and in order, whatever lines came before.
C9_FilterExact == fl_delivered = SelectSeq(fl_raw, C9_Passes)

\* C9 witness: of three raw lines the marked one is dropped.
C9_Witness ==
    /\ fl_raw = << <<"x">>,
                   <<"s", "u", "b", "r", "e", "q", "u", "e", "s", "t", "=", "1", "&", "y">>,
                   <<"s", "u", "b", "r", "e", "q", "u", "e", "s", "t", "=", "2">> >>
    /\ fl_delivered = << <<"x">>,
                         <<"s", "u", "b", "r", "e", "q", "u", "e", "s", "t", "=", "2">> >>

\* The lines of source i (from 1) up to its k-th, in order.
C10_Lines(i, k) == [m \in 1..k |-> SourceLine(i, m)]

\* The lines of the sources before source i (from 1), in list order.
RECURSIVE C10_Before(_)
C10_Before(i) ==
    IF i <= 1
    THEN <<>>
    ELSE C10_Before(i - 1) \o C10_Lines(i - 1, ch_sources[i - 1].lines)

\* The sources that fail.
C10_Failing == {i \in 1..Len(ch_sources) : ch_sources[i].fails # <<>>}

\* C10: a Chained source delivers the lines of its sources in list order, each
\* source's lines in full before the next one's; it returns Ok only when no
\* source failed, with every line delivered; when source j fails it returns
\* the error, with the lines of the sources before j and the lines j produced
\* before failing delivered, and no line of a later source.
C10_ChainedOrder ==
    /\ ch_pc = "running" =>
            ch_delivered = C10_Before(ch_i + 1) \o C10_Lines(ch_i + 1, ch_k)
    /\ ch_pc = "Ok" =>
            /\ C10_Failing = {}
            /\ ch_delivered = C10_Before(Len(ch_sources) + 1)
    /\ ch_pc = "Err" =>
            /\ C10_Failing # {}
            /\ LET j == CHOOSE i \in C10_Failing : \A g \in C10_Failing : i <= g
               IN ch_delivered =
                    C10_Before(j) \o C10_Lines(j, ch_sources[j].fails[1])

\* C10 witness: the first of two sources fails after its first line, and the
\* second source has lines that were not delivered.
C10_Witness ==
    /\ ch_pc = "Err"
    /\ Len(ch_sources) = 2
    /\ ch_sources[1] = [lines |-> 2, fails |-> <<1>>]
    /\ ch_sources[2].lines = 2
    /\ ch_delivered = <<SourceLine(1, 1)>>

\* C5: a successful run with a sampling method, --count C and enough input
\* lines (read from files) has target size C times the number of output sinks
\* and writes exactly C bullets to each sink, whether the sinks are explicit
\* output files, prefix-generated files or the single standard-output sink.
C5_CountPerSink ==
    (/\ run_pc = "done"
     /\ conf_algo \in {"MethodS", "ReserviorSampling"}
     /\ conf_in = "files"
     /\ run_lines >= cli_count[1] * Len(rr_sinks)) =>
        /\ conf_target_set_size = <<cli_count[1] * Len(rr_sinks)>>
        /\ \A i \in 1..Len(rr_sinks) : Len(rr_sinks[i]) = cli_count[1]

\* C11: process_lines calls the callback exactly once per line of the stream,
\* in stream order, and every delivered line has no trailing newline byte: a
\* line followed by one or more consecutive newline bytes is delivered as a
\* single line, and a final line without a newline is delivered too.
C11_LineLen(text) ==
    CHOOSE k \in 0..Len(text) :
        /\ \A i \in 1..k : text[i] # LF
        /\ k = Len(text) \/ text[k + 1] = LF

C11_NewlinesEnd(text, k) ==
    CHOOSE j \in k..Len(text) :
        /\ \A i \in (k + 1)..j : text[i] = LF
        /\ j = Len(text) \/ text[j + 1] # LF

RECURSIVE C11_Lines(_)
C11_Lines(text) ==
    IF text = <<>>
    THEN <<>>
    ELSE LET k == C11_LineLen(text)
             j == C11_NewlinesEnd(text, k)
         IN <<SubSeq(text, 1, k)>> \o C11_Lines(SubSeq(text, j + 1, Len(text)))

C11_OncePerLine ==
    (/\ pl_pc = "Ok"
     /\ ~pl_gz
     /\ pl_text # <<>>
     /\ pl_text[1] # LF) => pl_delivered = C11_Lines(pl_text)

\* C12: a gzip encoding of a text and the text itself deliver the same lines
\* through process_lines, whatever number of bytes the first read returns.
RECURSIVE C12_PlainLines(_)
C12_PlainLines(text) ==
    IF text = <<>>
    THEN <<>>
    ELSE LET n == ReadUntil(text, LF)
         IN <<StripNewlines(SubSeq(text, 1, n))>> \o
            C12_PlainLines(SubSeq(text, n + 1, Len(text)))

C12_SniffTransparent ==
    pl_pc = "Ok" => pl_delivered = C12_PlainLines(pl_text)

\* C13: for a url u that starts with neither b"tskv" nor b"[" and a tag string
\* t, both without tab bytes, the tab-separated line with u in field 1 and t in
\* field 12 and the tskv line with url=u and wizards=t parse to (u, t), and
\* the plain line u parses to (u, no tags); the two structured lines parse to
\* (u, t) for every u without tab bytes.
C13_PlainUrl(u) == ~StartsWith(u, Tskv) /\ ~StartsWith(u, <<"[">>)

C13_FormatsAgree ==
    pr_rec # <<>> =>
        /\ pr_format \in {"tab", "tskv"} =>
              pr_rec[1] = [url |-> pr_url, wizards |-> pr_tags]
        /\ (pr_format = "plain" /\ C13_PlainUrl(pr_url)) =>
              pr_rec[1] = [url |-> pr_url, wizards |-> <<>>]

\* C13 as stated: every one of the three lines parses to (u, t).
C13_FormatEquivalence ==
    pr_rec # <<>> => pr_rec[1] = [url |-> pr_url, wizards |-> pr_tags]

C13_Witness ==
    /\ pr_rec # <<>>
    /\ pr_format = "tab"
    /\ pr_tags # <<>>
    /\ StartsWith(pr_url, HttpPrefix)
    /\ pr_rec[1].wizards = pr_tags

\* C14: the bullet made from a record has place equal to the value of the
\* query parameter named place of the record's url (empty without one),
\* resource equal to everything behind the first "/" after the optional
\* "http://", host equal to the part before the first ":" or "/", and the
\* record's tags.
C14_Rest(url) ==
    IF StartsWith(url, HttpPrefix)
    THEN SubSeq(url, Len(HttpPrefix) + 1, Len(url))
    ELSE url

C14_Before(s, seps) == Split(s, seps)[1]

C14_After(s, seps) == SubSeq(s, Len(C14_Before(s, seps)) + 2, Len(s))

C14_PlaceOf(url) ==
    LET params == Split(C14_After(url, {"?"}), {"&"})
        named == {i \in 1..Len(params) :
                     StartsWith(params[i], PlaceParam \o <<"=">>)}
    IN IF named = {}
       THEN <<>>
       ELSE C14_After(params[CHOOSE i \in named : \A j \in named : i <= j],
                      {"="})

C15_Qualifying(url, p) ==
    LET parts == Split(url, {"?", "&"})
    IN {i \in 1..Len(parts) : StartsWith(parts[i], p \o <<"=">>)}

C15_ParamValue ==
    pr_pc = "value" =>
        LET url == pr_rec[1].url
            parts == Split(url, {"?", "&"})
            found == C15_Qualifying(url, pr_param)
        IN IF found = {}
           THEN pr_value = <<>>
           ELSE LET first == CHOOSE i \in found : \A j \in found : i <= j
                IN pr_value = <<SubSeq(parts[first], Len(pr_param) + 2,
                                       Len(parts[first]))>>

C15_Witness ==
    /\ pr_pc = "value"
    /\ pr_param = PlaceParam
    /\ pr_value = <<>>
    /\ \E i \in 1..Len(Split(pr_rec[1].url, {"?", "&"})) :
          LET part == Split(pr_rec[1].url, {"?", "&"})[i] IN
          \E k \in 1..Len(part) :
              StartsWith(SubSeq(part, k + 1, Len(part)), PlaceParam \o <<"=">>)

\* C16: RoundRobin.finish calls finish on its subprocessors in list order; it
\* returns Ok only when it has called every one and none failed; at the first
\* subprocessor whose finish fails it returns that error and calls no later one.
C16_FinishOrder ==
    rr_pc = "finished" =>
        /\ \A i \in 1..Len(rr_finished) : rr_finished[i] = i
        /\ rr_result \in {"Ok", "Err"}
        /\ rr_result = "Ok" =>
              /\ Len(rr_finished) = Len(rr_sinks)
              /\ \A s \in 1..Len(rr_sinks) : s \notin rr_finish_fails
              /\ rr_error = 0
        /\ rr_result = "Err" =>
              /\ rr_finished # <<>>
              /\ rr_error = rr_finished[Len(rr_finished)]
              /\ rr_error \in rr_finish_fails
              /\ \A i \in 1..(Len(rr_finished) - 1) :
                    rr_finished[i] \notin rr_finish_fails

C16_Witness ==
    /\ rr_pc = "finished"
    /\ rr_result = "Err"
    /\ Len(rr_finished) = 2
    /\ Len(rr_sinks) = 3
    /\ 3 \in rr_finish_fails

\* C17: when every process call on a sink and its finish have returned Ok,
\* the underlying destination of the sink has accepted every byte of every
\* bullet given to the sink, and the sink holds none of them back.
C17_AllAccepted ==
    wa_pc = "finished" =>
        /\ wa_dest = Concat(wa_out)
        /\ wa_held = <<>>

\* C18: when process handles the bullet at position i >= K (K >= 1), the draw
\* r ranges over exactly the i + 1 values 0..i, so that the bullet may be
\* discarded (r >= K) as well as kept (r < K).
C18_DrawRange ==
    (/\ rs_pc = "ready"
     /\ rs_target_set_size >= 1
     /\ rs_index >= rs_target_set_size) =>
        /\ ReservoirDraws(rs_index) = 0..rs_index
        /\ \E r \in ReservoirDraws(rs_index) : r >= rs_target_set_size
        /\ \E r \in ReservoirDraws(rs_index) : r < rs_target_set_size

\* C19: while a MethodS stage with a non-failing subprocessor has had at most
\* total_count process calls, already_selected <= already_processed <=
\* total_count, already_selected <= target_size and target_size -
\* already_selected <= total_count - already_processed; no process call panics
\* on a subtraction or an empty draw range, a bullet is selected whenever need
\* equals remaining, and none is selected when need is 0.
C19_Counters ==
    /\ ms_pc \in {"ready", "finished"} =>
          /\ ms_already_selected <= ms_already_processed
          /\ ms_already_processed <= ms_input_lines_count
          /\ ms_already_selected <= ms_target_set_size
          /\ ms_target_set_size - ms_already_selected
                <= ms_input_lines_count - ms_already_processed
    /\ ms_pc = "panicked" =>
          ms_calls = 0 \/ ms_calls > ms_input_lines_count
    /\ ms_last # <<>> =>
          /\ ms_last[1].need >= 0
          /\ ms_last[1].rnd \in 1..ms_last[1].not_seen
          /\ ms_last[1].need = ms_last[1].not_seen => ms_last[1].selected
          /\ ms_last[1].need = 0 => ~ms_last[1].selected

C19_Witness ==
    /\ ms_pc = "ready"
    /\ ms_last # <<>>
    /\ ms_last[1].need = ms_last[1].not_seen
    /\ ms_last[1].not_seen >= 2
    /\ ms_last[1].selected
    /\ ms_already_processed >= 2

\* C20: in a two-pass run the total count given to MethodS is the number of
\* lines that pass the filter in the counting pass, and the main pass never
\* calls process more often than that; with file input the main pass feeds
\* exactly that many bullets and the run ends with exactly target_size bullets
\* forwarded; with standard input the counting pass has consumed the input and
\* the main pass feeds no bullet.
C20_Forwarded ==
    LET sunk == RoundRobinAfter([i \in 1..Len(rr_sinks) |-> <<>>], 0, ms_down)
    IN rr_sinks = sunk.sinks

C20_TwoPass ==
    conf_algo = "MethodS" =>
        /\ run_pc \in {"main", "done"} =>
              /\ ms_input_lines_count = run_lines
              /\ ms_calls <= ms_input_lines_count
              /\ C20_Forwarded
        /\ run_pc = "panicked" => ms_calls = 0
        /\ (run_pc = "done" /\ conf_in = "files") =>
              /\ ms_calls = ms_input_lines_count
              /\ Len(ms_down) = conf_target_set_size[1]
        /\ (run_pc = "done" /\ conf_in = "stdin") =>
              /\ ms_calls = 0
              /\ ms_down = <<>>

\* C20 as stated: with every input source the main pass feeds total_count
\* bullets and the run ends with target_size bullets forwarded.
C20_EverySource ==
    (/\ conf_algo = "MethodS"
     /\ run_pc = "done"
     /\ conf_target_set_size[1] >= 1) =>
        /\ ms_calls = ms_input_lines_count
        /\ Len(ms_down) = conf_target_set_size[1]

C20_Witness ==
    /\ conf_algo = "MethodS"
    /\ conf_in = "files"
    /\ run_pc = "done"
    /\ conf_target_set_size[1] >= 2
    /\ ms_input_lines_count > conf_target_set_size[1]
    /\ Len(ms_down) = conf_target_set_size[1]

====
